---- MODULE Spec2Model ----
(***************************************************************************)
(* Shrimp-imports ingestion (services/census/ingest_shrimp.py) and the     *)
(* feature pass (services/census/feature_engineering.py).                  *)
(*                                                                         *)
(* A table (DataFrame / CSV file) is a sequence of rows.  A row is a       *)
(* record [c |-> I_COMMODITY, m |-> MONTH, v |-> GEN_VAL_MO].              *)
(*   c  the commodity code as the sequence of its decimal digits, so that  *)
(*      the leading zeros of "0306170000" are part of the value;           *)
(*   m  the period "YYYY-MM" as its rank 1..MaxMonth (string order of      *)
(*      "YYYY-MM" is chronological order);                                 *)
(*   v  the primary value: a number, Unparsable (a raw cell that is not    *)
(*      a number) or NaN (pandas' missing value).                          *)
(***************************************************************************)
EXTENDS Integers, Sequences, FiniteSets, TLC

VARIABLES
    canon,          \* OUT_CSV: Absent or File(the table in it)
    tmp,            \* OUT_CSV.with_suffix(".tmp.csv"): Absent or File(its content)
    snaps,          \* RAW_DIR: the files [t |-> stamp, data |-> content], one per name
    clock,          \* datetime.now(timezone.utc), in whole seconds
    runs,           \* number of calls of run() so far
    fetched,        \* number of rows the upstream API has served so far
    pc,             \* position of the current call of run()
    hsIdx,          \* fetch_with_fallback: index of the candidate being tried
    attempts,       \* fetch_with_fallback: the fetches made so far and what each gave
    last_exc,       \* fetch_with_fallback: last_exc
    df_raw,         \* run: df_raw
    df_clean_new,   \* run: df_clean_new
    df_existing,    \* run: df_existing
    df_merged,      \* run: df_merged
    outcome,        \* the latest call of run(): "none" (running), "ok" or the exception raised
    errRef,         \* the failure the raised CensusError names ("Last error: ...")
    pre,            \* the files as they were when the current call of run() began
    prev,           \* the latest successful call: its number, its df_raw, the file it left
    versions,       \* the tables that a completed write has made the canonical table
    rpc,            \* reader (feature_engineering.main, lines 29-32): its position
    rino,           \* reader: the file (inode) it has open
    rfile,          \* reader: what its open file held when the file lost its name
    rbuf,           \* reader: the rows read so far
    f_in,           \* feature pass: IN_CSV, rows [c, m, ves, air]
    f_out,          \* feature pass: OUT_CSV (shrimp_features.csv), the rows written
    fpc             \* feature pass: "idle", "done" or "notfound"

vars == <<canon, tmp, snaps, clock, runs, fetched, fetched, pc, hsIdx, attempts, last_exc, df_raw,
          df_clean_new, df_existing, df_merged, outcome, errRef, pre, prev,
          versions, rpc, rino, rfile, rbuf, f_in, f_out, fpc>>

(***************************************************************************)
(* Bounds                                                                  *)
(***************************************************************************)
MaxRuns    == 2    \* calls of run()
MaxFetched == 3    \* rows the upstream API serves, over all calls
MaxMonth   == 2      \* distinct periods
NumVals    == 2      \* distinct numeric values of GEN_VAL_MO
MaxClock   == 2      \* distinct UTC seconds
MaxFeatRows == 3     \* rows of the table given to the feature pass
MaxWeight  == 1      \* largest VES_WGT_MO
MaxAir     == 1      \* largest AIR_WGT_MO

(***************************************************************************)
(* Values                                                                  *)
(***************************************************************************)
Absent     == [exists |-> FALSE, rows |-> <<>>, ino |-> 0]   \* a path at which no file exists
File(t, i) == [exists |-> TRUE, rows |-> t, ino |-> i]       \* table t in the file (inode) i
None       == "None"           \* Python's None
NaN        == -1               \* missing value of a numeric column
Unparsable == -2               \* raw cell that pd.to_numeric cannot parse

HS10 == <<0, 3, 0, 6, 1, 7, 0, 0, 0, 0>>
HS6  == <<0, 3, 0, 6, 1, 7>>
Candidates == <<HS10, HS6>>

Months  == 1..MaxMonth
RawVals == (1..NumVals) \cup {Unparsable}
Errors  == {"HTTP 500", "timeout"}

RECURSIVE StripZeros(_)
\* int("0306170000") printed again: the leading zeros are gone
StripZeros(d) == IF Len(d) > 1 /\ d[1] = 0 THEN StripZeros(Tail(d)) ELSE d

\* pd.to_numeric(errors="coerce") on one cell
ToNumeric(x) == IF x = Unparsable THEN NaN ELSE x

\* the non-empty responses of at most n rows the upstream API can give for
\* candidate hs: every row carries the commodity code of the query
RECURSIVE SeqsUpTo(_, _)
SeqsUpTo(S, n) ==
    IF n = 0 THEN {<<>>}
    ELSE LET shorter == SeqsUpTo(S, n - 1)
         IN  shorter \cup {Append(s, x) : s \in {t \in shorter : Len(t) = n - 1}, x \in S}

RawRows(hs)  == {[c |-> hs, m |-> m, v |-> v] : m \in Months, v \in RawVals}
Responses(hs, n) == SeqsUpTo(RawRows(hs), n) \ {<<>>}

(***************************************************************************)
(* DataFrame operations                                                    *)
(***************************************************************************)
RECURSIVE SubSeqAt(_, _, _)
\* the rows of s at the positions of idx, in their order in s
SubSeqAt(s, idx, i) ==
    IF i > Len(s) THEN <<>>
    ELSE (IF i \in idx THEN <<s[i]>> ELSE <<>>) \o SubSeqAt(s, idx, i + 1)

\* df.dropna(subset=["GEN_VAL_MO"])
DropNa(df) == SelectSeq(df, LAMBDA r : r.v # NaN)

IsSortedByMonth(s) == \A i \in 1..(Len(s) - 1) : s[i].m <= s[i + 1].m

\* the orders in which sort_values may leave rows of equal MONTH: any
\* (the sort kind of the call is not a stable one)
AnyTieOrder(df) ==
    {s \in {[i \in 1..Len(df) |-> df[p[i]]] : p \in Permutations(1..Len(df))} :
        IsSortedByMonth(s)}

\* df.sort_values("MONTH") with the default kind="quicksort"
SortValues(df) == AnyTieOrder(df)

\* drop_duplicates left out: every row is kept
DropDuplicates_KeepAll(s) == s

\* df.drop_duplicates(subset=["MONTH"], keep="last")
DropDuplicates(s) ==
    SubSeqAt(s, {i \in 1..Len(s) : \A j \in (i + 1)..Len(s) : s[j].m # s[i].m}, 1)

\* clean(df): the tables it can return
clean(df) ==
    LET out == DropNa([i \in 1..Len(df) |->
                   [c |-> df[i].c, m |-> df[i].m, v |-> ToNumeric(df[i].v)]])
    IN  {DropDuplicates(s) : s \in SortValues(out)}

\* pd.read_csv on the canonical file: I_COMMODITY is inferred as int64
ReadCsv(t) == [i \in 1..Len(t) |->
                   [c |-> StripZeros(t[i].c), m |-> t[i].m, v |-> t[i].v]]

\* read_csv_if_exists(path)
read_csv_if_exists(file) == IF file.exists THEN ReadCsv(file.rows) ELSE <<>>

\* lines 91-93 of run: concat, sort by MONTH, drop duplicates keeping the last
Merge(existing, new) == {DropDuplicates(s) : s \in SortValues(existing \o new)}

Files == [canon |-> canon, tmp |-> tmp, snaps |-> snaps]

\* line 14
OUT_CSV == "canon"

\* the table written straight to the destination path
TmpPath_InPlace(path) == path

\* line 31: path.with_suffix(".tmp.csv")
TmpPath(path) == "tmp"

FileAt(path) == IF path = "canon" THEN canon ELSE tmp

(***************************************************************************)
(* Init                                                                    *)
(***************************************************************************)
Locals  == <<hsIdx, attempts, last_exc, df_raw, df_clean_new, df_existing, df_merged>>
Reader  == <<rpc, rino, rfile, rbuf>>
Feature == <<f_in, f_out, fpc>>
History == <<pre, prev>>

NoLocals ==
    /\ hsIdx = 1
    /\ attempts = <<>>
    /\ last_exc = None
    /\ df_raw = <<>>
    /\ df_clean_new = <<>>
    /\ df_existing = <<>>
    /\ df_merged = <<>>

NoReader ==
    /\ rpc = "idle"
    /\ rino = 0
    /\ rfile = <<>>
    /\ rbuf = <<>>

NoFeature ==
    /\ f_in = Absent
    /\ f_out = <<>>
    /\ fpc = "idle"

Init ==
    /\ canon = Absent
    /\ tmp = Absent
    /\ snaps = {}
    /\ clock = 1
    /\ runs = 0
    /\ fetched = 0
    /\ pc = "idle"
    /\ NoLocals
    /\ outcome = "none"
    /\ errRef = None
    /\ pre = [canon |-> Absent, tmp |-> Absent, snaps |-> {}]
    /\ prev = [run |-> 0, raw |-> <<>>, canon |-> Absent]
    /\ versions = {}
    /\ NoReader
    /\ NoFeature

(***************************************************************************)
(* run(), one action per step                                              *)
(***************************************************************************)
\* the run raises: nothing after the raising line is executed
Raise(kind, ref) ==
    /\ outcome' = kind
    /\ errRef' = ref
    /\ pc' = "idle"

\* the locals of a call that begins
FreshLocals ==
    /\ hsIdx' = 1
    /\ attempts' = <<>>
    /\ last_exc' = None
    /\ df_raw' = <<>>
    /\ df_clean_new' = <<>>
    /\ df_existing' = <<>>
    /\ df_merged' = <<>>

\* lines 63-65: the credential is missing
RunNoKey ==
    /\ pc = "idle"
    /\ runs < MaxRuns
    /\ runs' = runs + 1
    /\ pre' = Files
    /\ FreshLocals
    /\ Raise("ValueError", None)
    /\ UNCHANGED <<canon, tmp, snaps, clock, fetched, prev, versions, Reader, Feature>>

\* lines 63-76 and 50-51: the credential is there, the fetch loop begins
RunStart ==
    /\ pc = "idle"
    /\ runs < MaxRuns
    /\ runs' = runs + 1
    /\ pre' = Files
    /\ FreshLocals
    /\ outcome' = "none"
    /\ errRef' = None
    /\ pc' = "fetch"
    /\ UNCHANGED <<canon, tmp, snaps, clock, fetched, prev, versions, Reader, Feature>>

\* lines 52-56: the fetch of the current candidate returns rows
FetchRows ==
    /\ pc = "fetch"
    /\ hsIdx <= Len(Candidates)
    /\ \E df \in Responses(Candidates[hsIdx], MaxFetched - fetched) :
          /\ attempts' = Append(attempts, [hs |-> Candidates[hsIdx], res |-> "rows"])
          /\ df_raw' = df
          /\ fetched' = fetched + Len(df)
    /\ pc' = "clean"
    /\ UNCHANGED <<canon, tmp, snaps, clock, runs, hsIdx, last_exc, df_clean_new,
                   df_existing, df_merged, outcome, errRef, History, versions, Reader, Feature>>

\* lines 52-55: the fetch returns an empty table (HTTP 204), next candidate
FetchEmpty ==
    /\ pc = "fetch"
    /\ hsIdx <= Len(Candidates)
    /\ attempts' = Append(attempts, [hs |-> Candidates[hsIdx], res |-> "empty"])
    /\ hsIdx' = hsIdx + 1
    /\ UNCHANGED <<canon, tmp, snaps, clock, runs, fetched, pc, last_exc, df_raw,
                   df_clean_new, df_existing, df_merged, outcome, errRef, History,
                   versions, Reader, Feature>>

\* the first exception is kept instead of the last
FetchRaise_KeepFirst ==
    /\ pc = "fetch"
    /\ hsIdx <= Len(Candidates)
    /\ \E e \in Errors :
          /\ attempts' = Append(attempts, [hs |-> Candidates[hsIdx], res |-> e])
          /\ last_exc' = IF last_exc = None THEN e ELSE last_exc
    /\ hsIdx' = hsIdx + 1
    /\ UNCHANGED <<canon, tmp, snaps, clock, runs, fetched, pc, df_raw, df_clean_new,
                   df_existing, df_merged, outcome, errRef, History, versions, Reader,
                   Feature>>

\* lines 57-59: the fetch raises, the exception is kept, next candidate
FetchRaise ==
    /\ pc = "fetch"
    /\ hsIdx <= Len(Candidates)
    /\ \E e \in Errors :
          /\ attempts' = Append(attempts, [hs |-> Candidates[hsIdx], res |-> e])
          /\ last_exc' = e
    /\ hsIdx' = hsIdx + 1
    /\ UNCHANGED <<canon, tmp, snaps, clock, runs, fetched, pc, df_raw, df_clean_new,
                   df_existing, df_merged, outcome, errRef, History, versions, Reader, Feature>>

\* line 60: no candidate is left
FetchExhausted ==
    /\ pc = "fetch"
    /\ hsIdx > Len(Candidates)
    /\ Raise("CensusError", last_exc)
    /\ UNCHANGED <<canon, tmp, snaps, clock, runs, fetched, Locals, History, versions,
                   Reader, Feature>>

\* line 79
CleanStep ==
    /\ pc = "clean"
    /\ \E t \in clean(df_raw) : df_clean_new' = t
    /\ pc' = "snapshot"
    /\ UNCHANGED <<canon, tmp, snaps, clock, runs, fetched, hsIdx, attempts, last_exc,
                   df_raw, df_existing, df_merged, outcome, errRef, History, versions,
                   Reader, Feature>>

\* a write that raised part-way leaves the rows written so far
Prefixes(t) == {SubSeq(t, 1, n) : n \in 0..(Len(t) - 1)}

\* df.to_csv(path) in a directory: the file of that name is created or replaced
WriteFile(dir, name, data) == {f \in dir : f.t # name} \cup {[t |-> name, data |-> data]}

\* line 82: the name of the snapshot is the current UTC second
Stamp == clock

\* lines 82-84: the raw snapshot
Snapshot ==
    /\ pc = "snapshot"
    /\ snaps' = WriteFile(snaps, Stamp, df_raw)
    /\ pc' = "merge"
    /\ UNCHANGED <<canon, tmp, clock, runs, fetched, Locals, outcome, errRef, History,
                   versions, Reader, Feature>>

\* line 84 raises (disk full, ...): the file holds what was written so far
SnapshotFail ==
    /\ pc = "snapshot"
    /\ \E part \in Prefixes(df_raw) : snaps' = WriteFile(snaps, Stamp, part)
    /\ Raise("OSError", None)
    /\ UNCHANGED <<canon, tmp, clock, runs, fetched, Locals, History, versions, Reader, Feature>>

\* lines 87-93
MergeStep ==
    /\ pc = "merge"
    /\ df_existing' = read_csv_if_exists(canon)
    /\ \E t \in Merge(df_existing', df_clean_new) : df_merged' = t
    /\ pc' = "write"
    /\ UNCHANGED <<canon, tmp, snaps, clock, runs, fetched, hsIdx, attempts, last_exc,
                   df_raw, df_clean_new, outcome, errRef, History, versions, Reader, Feature>>

\* line 87 raises: the canonical file exists and cannot be read
ReadFail ==
    /\ pc = "merge"
    /\ canon.exists
    /\ Raise("OSError", None)
    /\ UNCHANGED <<canon, tmp, snaps, clock, runs, fetched, Locals, History, versions,
                   Reader, Feature>>

\* the file at path becomes f
SetFile(path, f) ==
    IF path = "canon" THEN canon' = f /\ UNCHANGED tmp
                      ELSE tmp' = f /\ UNCHANGED canon

\* line 32, df.to_csv(tmp) opens the file: it is created, or emptied if there
WriteOpen ==
    /\ pc = "write"
    /\ LET path == TmpPath(OUT_CSV)
           old  == FileAt(path)
       IN  SetFile(path, File(<<>>, IF old.exists THEN old.ino ELSE runs))
    /\ pc' = "writing"
    /\ UNCHANGED <<snaps, clock, runs, fetched, Locals, outcome, errRef, History,
                   versions, Reader, Feature>>

\* line 32, df.to_csv(tmp) writes the next row
WriteRow ==
    /\ pc = "writing"
    /\ LET path == TmpPath(OUT_CSV)
           f    == FileAt(path)
       IN  /\ Len(f.rows) < Len(df_merged)
           /\ SetFile(path, [f EXCEPT !.rows = Append(@, df_merged[Len(@) + 1])])
    /\ UNCHANGED <<snaps, clock, runs, fetched, pc, Locals, outcome, errRef, History,
                   versions, Reader, Feature>>

\* line 32, df.to_csv(tmp) has written every row and closes the file
WriteClose ==
    /\ pc = "writing"
    /\ Len(FileAt(TmpPath(OUT_CSV)).rows) = Len(df_merged)
    /\ pc' = "replace"
    /\ UNCHANGED <<canon, tmp, snaps, clock, runs, fetched, Locals, outcome, errRef,
                   History, versions, Reader, Feature>>

\* line 32 raises (disk full, ...): the file stays as far as it was written
WriteFail ==
    /\ pc \in {"write", "writing"}
    /\ Raise("OSError", None)
    /\ UNCHANGED <<canon, tmp, snaps, clock, runs, fetched, Locals, History, versions,
                   Reader, Feature>>

\* line 33, tmp.replace(path): the rename; then lines 97-105, the summary
Replace ==
    /\ pc = "replace"
    /\ IF TmpPath(OUT_CSV) = OUT_CSV
          THEN UNCHANGED <<canon, tmp>>
          ELSE canon' = tmp /\ tmp' = Absent
    /\ rfile' = IF rpc = "reading" /\ canon.exists /\ rino = canon.ino /\ canon'.ino # rino
                   THEN canon.rows ELSE rfile
    /\ versions' = versions \cup {canon'.rows}
    /\ outcome' = "ok"
    /\ pc' = "idle"
    /\ prev' = [run |-> runs, raw |-> df_raw, canon |-> canon']
    /\ UNCHANGED <<snaps, clock, runs, fetched, Locals, errRef, pre, rpc, rino, rbuf, Feature>>

\* a second of UTC time passes
Tick ==
    /\ clock < MaxClock
    /\ clock' = clock + 1
    /\ UNCHANGED <<canon, tmp, snaps, runs, fetched, pc, Locals, outcome, errRef, History,
                   versions, Reader, Feature>>

Next ==
    \/ RunNoKey
    \/ RunStart
    \/ FetchRows
    \/ FetchEmpty
    \/ FetchRaise
    \/ FetchExhausted
    \/ CleanStep
    \/ Snapshot
    \/ SnapshotFail
    \/ MergeStep
    \/ ReadFail
    \/ WriteOpen
    \/ WriteRow
    \/ WriteClose
    \/ WriteFail
    \/ Replace
    \/ Tick

Spec == Init /\ [][Next]_vars

(***************************************************************************)
(* The canonical file under a concurrent reader and a writer that can die  *)
(***************************************************************************)
\* the process running run() is killed: it does nothing more
Crash ==
    /\ pc # "idle"
    /\ pc' = "idle"
    /\ outcome' = "killed"
    /\ UNCHANGED <<canon, tmp, snaps, clock, runs, fetched, Locals, errRef, History,
                   versions, Reader, Feature>>

\* feature_engineering.main line 29, IN_CSV.exists() holds
ReaderExists ==
    /\ rpc = "idle"
    /\ canon.exists
    /\ rpc' = "checked"
    /\ UNCHANGED <<canon, tmp, snaps, clock, runs, fetched, pc, Locals, outcome, errRef,
                   History, versions, rino, rfile, rbuf, Feature>>

\* feature_engineering.main lines 29-30, IN_CSV.exists() fails: FileNotFoundError
ReaderNotFound ==
    /\ rpc = "idle"
    /\ ~canon.exists
    /\ rpc' = "notfound"
    /\ UNCHANGED <<canon, tmp, snaps, clock, runs, fetched, pc, Locals, outcome, errRef,
                   History, versions, rino, rfile, rbuf, Feature>>

\* feature_engineering.main line 32, pd.read_csv(IN_CSV) opens the file
ReaderOpen ==
    /\ rpc = "checked"
    /\ IF canon.exists
          THEN /\ rino' = canon.ino
               /\ rfile' = canon.rows
               /\ rpc' = "reading"
          ELSE /\ rpc' = "notfound"
               /\ UNCHANGED <<rino, rfile>>
    /\ UNCHANGED <<canon, tmp, snaps, clock, runs, fetched, pc, Locals, outcome, errRef,
                   History, versions, rbuf, Feature>>

\* what the reader's open file holds now: the file is the one the canonical
\* path names, or it has lost its name and stays as it was then
OpenFileRows == IF canon.exists /\ canon.ino = rino THEN canon.rows ELSE rfile

\* feature_engineering.main line 32, pd.read_csv(IN_CSV) reads the next row
ReaderRead ==
    /\ rpc = "reading"
    /\ Len(rbuf) < Len(OpenFileRows)
    /\ rbuf' = Append(rbuf, OpenFileRows[Len(rbuf) + 1])
    /\ UNCHANGED <<canon, tmp, snaps, clock, runs, fetched, pc, Locals, outcome, errRef,
                   History, versions, rpc, rino, rfile, Feature>>

\* feature_engineering.main line 32, pd.read_csv(IN_CSV) reaches the end of the file
ReaderEof ==
    /\ rpc = "reading"
    /\ Len(rbuf) >= Len(OpenFileRows)
    /\ rpc' = "done"
    /\ UNCHANGED <<canon, tmp, snaps, clock, runs, fetched, pc, Locals, outcome, errRef,
                   History, versions, rino, rfile, rbuf, Feature>>

NextAtomic ==
    \/ RunStart
    \/ FetchRows
    \/ CleanStep
    \/ Snapshot
    \/ MergeStep
    \/ WriteOpen
    \/ WriteRow
    \/ WriteClose
    \/ Replace
    \/ Crash
    \/ ReaderExists
    \/ ReaderNotFound
    \/ ReaderOpen
    \/ ReaderRead
    \/ ReaderEof

SpecAtomic == Init /\ [][NextAtomic]_vars

\* C4: the canonical path always names a completely written table, and a
\* reader that has read the file to its end has read a completely written
\* table, whatever the writer did meanwhile and wherever it was killed
C4_AtomicRead ==
    /\ canon.exists => canon.rows \in versions
    /\ rpc = "done" => rbuf \in versions

\* the reader opened the file, a run replaced it, the reader read on to the
\* end and holds the previous table
C4_Witness ==
    /\ rpc = "done"
    /\ rbuf # <<>>
    /\ canon.exists
    /\ canon.ino # rino
    /\ canon.rows # rbuf

(***************************************************************************)
(* The feature pass, feature_engineering.main                              *)
(*                                                                         *)
(* Its rows are [c, m, ves, air]: I_COMMODITY, MONTH, VES_WGT_MO and        *)
(* AIR_WGT_MO.  A computed number is a fraction <<n, d>> in lowest terms,  *)
(* d > 0; <<0, 0>> is NaN, <<1, 0>> and <<-1, 0>> are +inf and -inf.        *)
(***************************************************************************)
MomLag  == 1
YoyLag  == 12
Window3 == 3
Window6 == 6

QNaN  == <<0, 0>>
QZero == <<0, 1>>

Abs(x)  == IF x < 0 THEN -x ELSE x
Sign(x) == IF x < 0 THEN -1 ELSE IF x > 0 THEN 1 ELSE 0

RECURSIVE GCD(_, _)
GCD(a, b) == IF b = 0 THEN a ELSE GCD(b, a % b)

\* the fraction n/d; a zero denominator gives +inf, -inf or NaN as in floats
Norm(n, d) ==
    IF d = 0 THEN <<Sign(n), 0>>
    ELSE LET g == GCD(Abs(n), Abs(d))
         IN  <<Sign(d) * Sign(n) * (Abs(n) \div g), Abs(d) \div g>>

\* a cell of a numeric column as a fraction
Q(x) == IF x = NaN THEN QNaN ELSE <<x, 1>>

QIsNaN(a) == a = QNaN
QIsInf(a) == a[2] = 0 /\ a[1] # 0

QDiv(a, b) ==
    IF QIsNaN(a) \/ QIsNaN(b) THEN QNaN
    ELSE IF QIsInf(a) THEN (IF QIsInf(b) THEN QNaN ELSE <<a[1] * (IF b[1] < 0 THEN -1 ELSE 1), 0>>)
    ELSE IF QIsInf(b) THEN QZero
    ELSE Norm(a[1] * b[2], a[2] * b[1])

QSub(a, b) ==
    IF QIsNaN(a) \/ QIsNaN(b) THEN QNaN
    ELSE IF QIsInf(a) THEN (IF b = a THEN QNaN ELSE a)
    ELSE IF QIsInf(b) THEN <<-b[1], 0>>
    ELSE Norm(a[1] * b[2] - b[1] * a[2], a[2] * b[2])

RECURSIVE ToInt(_)
\* the integer a digit sequence denotes
ToInt(d) == IF d = <<>> THEN 0 ELSE 10 * ToInt(SubSeq(d, 1, Len(d) - 1)) + d[Len(d)]

\* line 32, pd.read_csv(IN_CSV): I_COMMODITY is inferred as int64
ReadFeatCsv(t) == [i \in 1..Len(t) |-> [t[i] EXCEPT !.c = StripZeros(@)]]

\* line 36, df.sort_values(["I_COMMODITY", "MONTH"]): by the integer code, then
\* by month
FrameBefore(r, q) == ToInt(r.c) < ToInt(q.c) \/ (r.c = q.c /\ r.m <= q.m)

RECURSIVE SortAt(_, _)
SortAt(df, idx) ==
    IF idx = {} THEN <<>>
    ELSE LET i == CHOOSE x \in idx : \A y \in idx : FrameBefore(df[x], df[y])
         IN  <<df[i]>> \o SortAt(df, idx \ {i})

SortFrame(df) == SortAt(df, 1..Len(df))

\* Series.pct_change(k) at position i of the integer series x
PctChange(x, i, k) ==
    IF i <= k THEN QNaN ELSE QSub(QDiv(Q(x[i]), Q(x[i - k])), <<1, 1>>)

RECURSIVE Sum(_, _, _)
\* x[lo] + ... + x[hi]
Sum(x, lo, hi) == IF lo > hi THEN 0 ELSE x[lo] + Sum(x, lo + 1, hi)

\* the first position of the window of width w that ends at i (min_periods=1)
WinLo(i, w) == IF i - w + 1 < 1 THEN 1 ELSE i - w + 1

\* Series.rolling(window=w, min_periods=1).mean() at position i
RollMean(x, i, w) == Norm(Sum(x, WinLo(i, w), i), i - WinLo(i, w) + 1)

\* the square of Series.rolling(window=w, min_periods=1).std().fillna(0.0) at
\* position i: the sample variance, NaN for a single observation filled with 0
RollVar(x, i, w) ==
    LET lo == WinLo(i, w)
        n  == i - lo + 1
        s  == Sum(x, lo, i)
        ss == Sum([j \in 1..Len(x) |-> x[j] * x[j]], lo, i)
    IN  IF n = 1 THEN QZero ELSE Norm(n * ss - s * s, n * (n - 1))

\* lines 46-65, compute_group(g): g is the rows of one commodity, in the order
\* of the sorted frame
compute_group(g) ==
    LET fill0(x) == IF x = NaN THEN 0 ELSE x
        total == [i \in 1..Len(g) |-> fill0(g[i].ves) + fill0(g[i].air)]
        share == [i \in 1..Len(g) |->
                    IF total[i] = 0 THEN QZero ELSE QDiv(Q(g[i].air), Q(total[i]))]
    IN  [i \in 1..Len(g) |->
          [c |-> g[i].c,
           m |-> g[i].m,
           total_weight_mo     |-> total[i],
           air_share           |-> share[i],
           weight_mom_pct      |-> PctChange(total, i, MomLag),
           weight_yoy_pct      |-> PctChange(total, i, YoyLag),
           air_share_mom_delta |-> IF i = 1 THEN QNaN ELSE QSub(share[i], share[i - 1]),
           weight_roll3_avg    |-> RollMean(total, i, Window3),
           weight_roll6_avg    |-> RollMean(total, i, Window6),
           weight_roll3_var    |-> RollVar(total, i, Window3),
           weight_roll6_var    |-> RollVar(total, i, Window6),
           weight_zscore_6     |-> IF RollVar(total, i, Window6) = QZero
                                      THEN [dev |-> QZero, var |-> <<1, 1>>]
                                      ELSE [dev |-> QSub(Q(total[i]), RollMean(total, i, Window6)),
                                            var |-> RollVar(total, i, Window6)]]]

\* the rows of commodity k, in the order of the frame
GroupOf(df, k) == SelectSeq(df, LAMBDA r : r.c = k)

RECURSIVE ApplyGroups(_, _)
\* line 67, df.groupby("I_COMMODITY", group_keys=False).apply(compute_group):
\* the groups in ascending key order, their results one after the other
ApplyGroups(df, keys) ==
    IF keys = {} THEN <<>>
    ELSE LET k == CHOOSE x \in keys : \A y \in keys : ToInt(x) <= ToInt(y)
         IN  compute_group(GroupOf(df, k)) \o ApplyGroups(df, keys \ {k})

\* compute_group applied to the whole frame, without the groupby
main_Ungrouped(t) == compute_group(SortFrame(ReadFeatCsv(t)))

\* lines 32-100 of main: the feature rows written for the table t
main(t) ==
    LET df == SortFrame(ReadFeatCsv(t))
    IN  ApplyGroups(df, {df[i].c : i \in 1..Len(df)})

FeatVes  == (0..MaxWeight) \cup {NaN}
FeatAir  == (1..MaxAir) \cup {NaN}
FeatRows == [c : {HS10, HS6}, m : Months, ves : FeatVes, air : FeatAir]

InitFeat ==
    /\ canon = Absent
    /\ tmp = Absent
    /\ snaps = {}
    /\ clock = 1
    /\ runs = 0
    /\ fetched = 0
    /\ pc = "idle"
    /\ NoLocals
    /\ outcome = "none"
    /\ errRef = None
    /\ pre = [canon |-> Absent, tmp |-> Absent, snaps |-> {}]
    /\ prev = [run |-> 0, raw |-> <<>>, canon |-> Absent]
    /\ versions = {}
    /\ NoReader
    /\ f_in \in {Absent, File(<<>>, 1)}
    /\ f_out = <<>>
    /\ fpc = "idle"

\* the table the pass will read gets one more row, of a (commodity, month)
\* it does not have yet, at its end
FeatInput ==
    /\ fpc = "idle"
    /\ f_in.exists
    /\ Len(f_in.rows) < MaxFeatRows
    /\ \E r \in FeatRows :
          /\ \A i \in 1..Len(f_in.rows) :
                <<f_in.rows[i].c, f_in.rows[i].m>> # <<r.c, r.m>>
          /\ f_in' = [f_in EXCEPT !.rows = Append(@, r)]
    /\ UNCHANGED <<canon, tmp, snaps, clock, runs, fetched, pc, Locals, outcome, errRef,
                   History, versions, Reader, f_out, fpc>>

\* lines 29-30: the input file is not there
FeatureNotFound ==
    /\ fpc = "idle"
    /\ ~f_in.exists
    /\ fpc' = "notfound"
    /\ UNCHANGED <<canon, tmp, snaps, clock, runs, fetched, pc, Locals, outcome, errRef,
                   History, versions, Reader, f_in, f_out>>

\* lines 29-101: the feature table is computed and written
FeatureRun ==
    /\ fpc = "idle"
    /\ f_in.exists
    /\ f_out' = main(f_in.rows)
    /\ fpc' = "done"
    /\ UNCHANGED <<canon, tmp, snaps, clock, runs, fetched, pc, Locals, outcome, errRef,
                   History, versions, Reader, f_in>>

NextFeat == FeatInput \/ FeatureNotFound \/ FeatureRun

SpecFeat == InitFeat /\ [][NextFeat]_vars

\* the feature rows of commodity k, in output order
FeatOf(out, k) == SelectSeq(out, LAMBDA r : r.c = k)

\* the rows of commodity k alone, in ascending month order
RECURSIVE ByMonth(_)
ByMonth(rows) ==
    IF rows = {} THEN <<>>
    ELSE LET r == CHOOSE x \in rows : \A y \in rows : x.m <= y.m
         IN  <<r>> \o ByMonth(rows \ {r})

OwnRows(t, k) == ByMonth({t[i] : i \in {j \in 1..Len(t) : t[j].c = k}})

\* file table t with the weights of every row of another commodity than k
\* (k as read from the file) changed
OthersChanged(t, k) ==
    [i \in 1..Len(t) |->
        IF StripZeros(t[i].c) = k THEN t[i]
        ELSE [t[i] EXCEPT !.ves = IF @ = NaN THEN 0 ELSE NaN, !.air = 0]]

Reverse(t) == [i \in 1..Len(t) |-> t[Len(t) + 1 - i]]

\* C10: the feature rows of a commodity are those computed from its own rows
\* alone in ascending month order, the same whatever the rows of the other
\* commodities hold and in whatever order the table lists its rows; the
\* output has one row per input row; weight_mom_pct is missing for the
\* earliest month of each commodity
C10_PerCommodity ==
    fpc = "done" =>
        LET df == ReadFeatCsv(f_in.rows)
        IN  /\ Len(f_out) = Len(df)
            /\ \A k \in {df[i].c : i \in 1..Len(df)} :
                  /\ FeatOf(f_out, k) = compute_group(OwnRows(df, k))
                  /\ FeatOf(main(OthersChanged(f_in.rows, k)), k) = FeatOf(f_out, k)
                  /\ FeatOf(main(Reverse(f_in.rows)), k) = FeatOf(f_out, k)
                  /\ \A i \in 1..Len(f_out) :
                        (f_out[i].c = k /\ \A j \in 1..Len(df) : df[j].c = k => f_out[i].m <= df[j].m)
                            => f_out[i].weight_mom_pct = QNaN

\* two commodities with interleaved months, the second row of one of them
\* has a defined weight_mom_pct
C10_Witness ==
    /\ fpc = "done"
    /\ Len(f_out) = 3
    /\ \E i, j \in 1..Len(f_in.rows) :
          /\ i < j
          /\ f_in.rows[i].c # f_in.rows[j].c
          /\ f_in.rows[i].m > f_in.rows[j].m
    /\ \E i \in 1..Len(f_out) : f_out[i].weight_mom_pct \notin {QNaN, QZero}

(***************************************************************************)
(* Properties of the ingestion runs                                        *)
(***************************************************************************)
Failed == pc = "idle" /\ outcome \in {"ValueError", "CensusError", "OSError"}

Key(r) == <<r.c, r.m>>

RowSet(file) == {file.rows[i] : i \in 1..Len(file.rows)}

\* the row of table t for period m (t has one)
RowOf(t, m) == t[CHOOSE i \in 1..Len(t) : t[i].m = m]

HasMonth(t, m) == \E i \in 1..Len(t) : t[i].m = m

\* C1: the persisted canonical table never holds two rows with the same
\* (commodity_code, month) pair
C1_UniqueKeys ==
    \A i, j \in 1..Len(canon.rows) :
        Key(canon.rows[i]) = Key(canon.rows[j]) => i = j

\* a second run has merged a window that overlaps the table of the first
C1_Witness ==
    /\ outcome = "ok"
    /\ runs = 2
    /\ Len(canon.rows) = 2
    /\ \E i \in 1..Len(df_existing) : HasMonth(df_clean_new, df_existing[i].m)

\* C2: in the merge step, for every period that both the existing table and
\* the new window have a row for, the merged table keeps the row of the new
\* window
C2_NewWins ==
    pc \in {"write", "writing", "replace"} =>
        \A m \in Months :
            (HasMonth(df_existing, m) /\ HasMonth(df_clean_new, m)) =>
                RowOf(df_merged, m) = RowOf(df_clean_new, m)

\* C3: a (commodity_code, month) key of the persisted canonical table is a
\* key of every later canonical table
C3_KeysPersist ==
    [][\A r \in RowSet(canon) : \E q \in RowSet(canon') : Key(q) = Key(r)]_vars

\* C5: a run that ended in a fatal error has left every file as it was when
\* the run began
C5_NoOutputOnError == Failed => Files = pre

\* C6: the snapshot step of a run adds exactly one file to the archive and
\* leaves every file that was there as it was
C6_SnapshotAdds ==
    [][(pc = "snapshot" /\ pc' = "merge") =>
            (snaps \subseteq snaps' /\ Cardinality(snaps') = Cardinality(snaps) + 1)]_vars

\* C7: a run that follows a successful run and fetches the same upstream
\* result leaves the canonical table with the rows it had
C7_RerunSame ==
    [][(pc = "replace" /\ pc' = "idle" /\ prev.run = runs - 1 /\ df_raw = prev.raw) =>
            RowSet(canon') = RowSet(canon)]_vars

\* C9: clean returns no row with a missing primary value, exactly one row
\* for each period that has an input row with a parsable primary value, that
\* row being the last such input row, and the rows in ascending period order
C9_Clean ==
    pc = "snapshot" =>
        LET ok(i) == df_raw[i].v # Unparsable
            has(m) == \E i \in 1..Len(df_raw) : df_raw[i].m = m /\ ok(i)
            last(m) == CHOOSE i \in 1..Len(df_raw) :
                          /\ df_raw[i].m = m /\ ok(i)
                          /\ \A j \in (i + 1)..Len(df_raw) : ~(df_raw[j].m = m /\ ok(j))
        IN  /\ \A i \in 1..Len(df_clean_new) : df_clean_new[i].v \notin {NaN, Unparsable}
            /\ \A m \in Months :
                  Cardinality({i \in 1..Len(df_clean_new) : df_clean_new[i].m = m})
                      = IF has(m) THEN 1 ELSE 0
            /\ \A m \in Months :
                  has(m) => RowOf(df_clean_new, m) =
                               [c |-> df_raw[last(m)].c, m |-> m, v |-> ToNumeric(df_raw[last(m)].v)]
            /\ \A i \in 1..(Len(df_clean_new) - 1) : df_clean_new[i].m < df_clean_new[i + 1].m

\* the last exception among the fetches made, None when none raised
RECURSIVE LastFailure(_)
LastFailure(log) ==
    IF log = <<>> THEN None
    ELSE IF log[Len(log)].res \in Errors THEN log[Len(log)].res
    ELSE LastFailure(SubSeq(log, 1, Len(log) - 1))

\* C8: the candidates are fetched in order, one fetch each, none after a
\* fetch that gave rows; the rows returned are those of that fetch; the
\* aggregated error is raised exactly when every candidate raised or gave no
\* rows, and it names the last exception raised
C8_Fallback ==
    /\ Len(attempts) <= Len(Candidates)
    /\ \A i \in 1..Len(attempts) :
          /\ attempts[i].hs = Candidates[i]
          /\ i < Len(attempts) => attempts[i].res # "rows"
    /\ (attempts # <<>> /\ attempts[Len(attempts)].res = "rows") =>
          (/\ df_raw # <<>>
           /\ \A i \in 1..Len(df_raw) : df_raw[i].c = Candidates[Len(attempts)]
           /\ outcome # "CensusError")
    /\ (Len(attempts) = Len(Candidates) /\ attempts[Len(attempts)].res # "rows") =>
          \/ pc = "fetch" /\ hsIdx > Len(Candidates)
          \/ pc = "idle" /\ outcome = "CensusError"
    /\ outcome = "CensusError" =>
          (/\ Len(attempts) = Len(Candidates)
           /\ \A i \in 1..Len(attempts) : attempts[i].res # "rows"
           /\ errRef = LastFailure(attempts))

\* both candidates raised, with different exceptions, and the run failed
C8_Witness ==
    /\ outcome = "CensusError"
    /\ Len(attempts) = 2
    /\ attempts[1].res = "HTTP 500"
    /\ attempts[2].res = "timeout"
    /\ errRef = "timeout"

====
